---- MODULE Spec2Model ----
(***************************************************************************)
(* Model of two command-line scripts of the repository:                    *)
(*                                                                         *)
(*   Cloud APIs/azure-maps-search-api/get_address.py                       *)
(*       get_address: EXIF GPS extraction, degree/minute/second to decimal *)
(*       conversion, reverse geocoding, presentation.   (specification    *)
(*       Spec)                                                             *)
(*   Cloud APIs/gcp-translate-api/translate.py                             *)
(*       translate_cmd: click command around the translation service.      *)
(*       (specification SpecTranslate)                                     *)
(*                                                                         *)
(* Conventions.                                                            *)
(*  - Python's None is the empty tuple <<>>, a present value v is <<v>>.   *)
(*  - A dict is a record over the keys the code reads; a key the dict      *)
(*    lacks holds None, which is what dict.get(key) returns for it, and    *)
(*    `key in d` is d[key] # None.                                         *)
(*  - A decimal coordinate is an exact integer count of arc-seconds        *)
(*    (1/3600 degree): degrees + minutes/60 + seconds/3600 is              *)
(*    (3600*degrees + 60*minutes + seconds) / 3600.  Floating-point        *)
(*    rounding is not modelled.  Python's 0.0 * -1 is -0.0, which compares *)
(*    equal to 0 and is not less than 0; the integer 0 stands for it.      *)
(***************************************************************************)
EXTENDS Integers, Sequences, FiniteSets

VARIABLES
    img,            \* get_address: the opened image's metadata
    pc,             \* get_address: position in the command
    location,       \* get_address: result of _get_gps_location
    requests,       \* get_address: coordinates of each reverse-geocoding call
    result,         \* get_address: what the service answered to the call
    address,        \* get_address: result of _search_address
    error,          \* get_address: exception that ended the run, or "none"
    output,         \* get_address: lines printed so far
    argv,           \* translate: the command line (text and --target option)
    tr_pc,          \* translate: position in the command
    kwargs,         \* translate: keyword arguments click passes to the callback
    tr_requests,    \* translate: calls made to the translation service
    tr_error,       \* translate: exception that ended the run, or "none"
    tr_output       \* translate: lines printed so far

vars == <<img, pc, location, requests, result, address, error, output,
          argv, tr_pc, kwargs, tr_requests, tr_error, tr_output>>

ga_vars == <<img, pc, location, requests, result, address, error, output>>

tr_vars == <<argv, tr_pc, kwargs, tr_requests, tr_error, tr_output>>

None == <<>>

Some(v) == <<v>>

(***************************************************************************)
(* Bounds of the model.                                                    *)
(***************************************************************************)
MaxDeg == 1

MaxFeatures == 2

Degrees == 0..MaxDeg

\* minutes and seconds at both ends of their valid range 0 <= x < 60
Minutes == {0, 59}

Seconds == {0, 59}

Triplets == Degrees \X Minutes \X Seconds

\* raw values of GPSLatitudeRef / GPSLongitudeRef: PIL hands over whatever
\* the file stores and the extractor does not validate it
Refs == {"N", "S", "E", "W"}

Addresses == {"addr1", "addr2"}

(***************************************************************************)
(* GPSCoordinate and GPSLocation (dataclasses).                            *)
(***************************************************************************)
GPSCoordinate(degrees, minutes, seconds, direction) ==
    [degrees |-> degrees, minutes |-> minutes, seconds |-> seconds,
     direction |-> direction]

GPSLocation(latitude, longitude) ==
    [latitude |-> latitude, longitude |-> longitude]

\* GPSCoordinate.__str__: f"{degrees}° {minutes}' {seconds}\" {direction}"
\* the four fields in this order, separators left out
__str__(self) ==
    <<self.degrees, self.minutes, self.seconds, self.direction>>

to_decimal_sign_S_only(self) ==
    (3600 * self.degrees + 60 * self.minutes + self.seconds)
        * (IF self.direction \in {"S"} THEN -1 ELSE 1)

\* GPSCoordinate.to_decimal, in arc-seconds:
\* float(degrees + minutes / 60 + seconds / 3600) * (-1 if direction in ['S', 'W'] else 1)
to_decimal(self) ==
    (3600 * self.degrees + 60 * self.minutes + self.seconds)
        * (IF self.direction \in {"S", "W"} THEN -1 ELSE 1)

(***************************************************************************)
(* Image metadata.                                                         *)
(*   exif_data: None when img.getexif() yields None, else the EXIF data;   *)
(*   gps_info:  None when get_ifd(GPSInfo) yields None, else the GPS block *)
(*              as a dict over the four tags read (a missing tag: None).   *)
(***************************************************************************)
GpsInfos ==
    [GPSLatitude     : {None} \cup {Some(t) : t \in Triplets},
     GPSLatitudeRef  : {None} \cup {Some(r) : r \in Refs},
     GPSLongitude    : {None} \cup {Some(t) : t \in Triplets},
     GPSLongitudeRef : {None} \cup {Some(r) : r \in Refs}]

EmptyGpsInfo ==
    [GPSLatitude |-> None, GPSLatitudeRef |-> None,
     GPSLongitude |-> None, GPSLongitudeRef |-> None]

Images ==
    {[exif_data |-> None]}
        \cup {[exif_data |-> Some([gps_info |-> None])]}
        \cup {[exif_data |-> Some([gps_info |-> Some(g)])] : g \in GpsInfos}

_get_gps_location_swapped(image) ==
    LET exif_data == image.exif_data
    IN  IF exif_data = None THEN None
        ELSE LET gps_info == exif_data[1].gps_info
             IN  IF gps_info = None THEN None
                 ELSE LET lat     == gps_info[1].GPSLatitude
                          lat_ref == gps_info[1].GPSLatitudeRef
                          lon     == gps_info[1].GPSLongitude
                          lon_ref == gps_info[1].GPSLongitudeRef
                      IN  IF lat = None \/ lon = None \/ lat_ref = None \/ lon_ref = None
                          THEN None
                          ELSE LET longitude == GPSCoordinate(lat[1][1], lat[1][2], lat[1][3], lat_ref[1])
                                   latitude  == GPSCoordinate(lon[1][1], lon[1][2], lon[1][3], lon_ref[1])
                               IN  Some(GPSLocation(latitude, longitude))

\* _get_gps_location(img) -> GPSLocation | None
_get_gps_location(image) ==
    LET exif_data == image.exif_data
    IN  IF exif_data = None THEN None
        ELSE LET gps_info == exif_data[1].gps_info
             IN  IF gps_info = None THEN None
                 ELSE LET lat     == gps_info[1].GPSLatitude
                          lat_ref == gps_info[1].GPSLatitudeRef
                          lon     == gps_info[1].GPSLongitude
                          lon_ref == gps_info[1].GPSLongitudeRef
                      IN  \* if None in (lat, lon, lat_ref, lon_ref): return None
                          IF lat = None \/ lon = None \/ lat_ref = None \/ lon_ref = None
                          THEN None
                          ELSE LET longitude == GPSCoordinate(lon[1][1], lon[1][2], lon[1][3], lon_ref[1])
                                   latitude  == GPSCoordinate(lat[1][1], lat[1][2], lat[1][3], lat_ref[1])
                               IN  Some(GPSLocation(latitude, longitude))

(***************************************************************************)
(* Reverse-geocoding service (MapsSearchClient.get_reverse_geocoding).     *)
(* The call either raises (transport or authentication failure) or returns *)
(* a dict that may hold "features", a list of dicts that may hold          *)
(* "properties", a dict that may hold "address", a dict that may hold      *)
(* "formattedAddress".                                                     *)
(***************************************************************************)
AddressDicts ==
    [formattedAddress : {None} \cup {Some(a) : a \in Addresses}]

PropertiesDicts ==
    [address : {None} \cup {Some(a) : a \in AddressDicts}]

\* the default of result['features'][0].get('properties', {})
EmptyProperties == [address |-> None]

Features ==
    [properties : {None} \cup {Some(p) : p \in PropertiesDicts}]

FeatureLists ==
    UNION {[1..n -> Features] : n \in 0..MaxFeatures}

Results ==
    [features : {None} \cup {Some(fs) : fs \in FeatureLists}]

ServiceReplies ==
    {[kind |-> "ServiceError", body |-> None]}
        \cup {[kind |-> "ok", body |-> Some(r)] : r \in Results}

Return(v) == [raised |-> "none", value |-> v]

Raise(e) == [raised |-> e, value |-> None]

Coordinates_swapped(loc) ==
    <<to_decimal(loc.latitude), to_decimal(loc.longitude)>>

\* coordinates=[location.longitude.to_decimal(), location.latitude.to_decimal()]
Coordinates(loc) ==
    <<to_decimal(loc.longitude), to_decimal(loc.latitude)>>

AddressOf_last_feature(res) ==
    IF res.features = None
    THEN Return(None)
    ELSE LET features == res.features[1]
         IN  IF Len(features) = 0
             THEN Raise("IndexError")
             ELSE LET feature == features[Len(features)]
                      props   == IF feature.properties = None
                                 THEN EmptyProperties
                                 ELSE feature.properties[1]
                  IN  IF props.address = None
                      THEN Return(None)
                      ELSE Return(props.address[1].formattedAddress)

\* _search_address after the call: from the returned dict to the address
AddressOf(res) ==
    \* if 'features' not in result: return None
    IF res.features = None
    THEN Return(None)
    ELSE LET features == res.features[1]
         IN  \* result['features'][0] of an empty list raises IndexError
             IF Len(features) = 0
             THEN Raise("IndexError")
             ELSE LET feature == features[1]
                      props   == IF feature.properties = None
                                 THEN EmptyProperties
                                 ELSE feature.properties[1]
                  IN  \* if 'address' not in props: return None
                      IF props.address = None
                      THEN Return(None)
                      \* props['address'].get('formattedAddress', None)
                      ELSE Return(props.address[1].formattedAddress)

\* _search_address(location), given what the service does with the call
_search_address(loc, reply) ==
    IF reply.kind = "ServiceError"
    THEN Raise("ServiceError")
    ELSE AddressOf(reply.body[1])

(***************************************************************************)
(* Printed lines: a message tag and its arguments.                         *)
(***************************************************************************)
Line(msg, args) == [msg |-> msg, args |-> args]

NoGpsMsg == Line("No se encontraron datos GPS en la imagen.", <<>>)

CoordsLines(loc) ==
    <<Line("Coordenadas GPS encontradas:", <<>>),
      Line("Latitud:", __str__(loc.latitude)),
      Line("Longitud:", __str__(loc.longitude)),
      Line("Buscando direccion...", <<>>)>>

NoAddressMsg ==
    Line("No se pudo encontrar la direccion para estas coordenadas.", <<>>)

AddressLines(a) ==
    <<Line("Direccion encontrada:", <<>>), Line("address", <<a>>)>>

(***************************************************************************)
(* get_address: the command.                                               *)
(***************************************************************************)
\* one run of get_address.py on an image; translate.py is not running
Init ==
    /\ img \in Images
    /\ pc = "start"
    /\ location = None
    /\ requests = <<>>
    /\ result = None
    /\ address = None
    /\ error = "none"
    /\ output = <<>>
    /\ argv = None
    /\ tr_pc = "idle"
    /\ kwargs = None
    /\ tr_requests = <<>>
    /\ tr_error = "none"
    /\ tr_output = <<>>

\* image = Image.open(img_path); location = _get_gps_location(image)
Extract ==
    /\ pc = "start"
    /\ location' = _get_gps_location(img)
    /\ pc' = "extracted"
    /\ UNCHANGED <<img, requests, result, address, error, output>>
    /\ UNCHANGED tr_vars

ReportNoGps_after_request ==
    /\ pc = "extracted"
    /\ location = None
    /\ requests' = Append(requests, <<0, 0>>)
    /\ output' = Append(output, NoGpsMsg)
    /\ pc' = "returned"
    /\ UNCHANGED <<img, location, result, address, error>>
    /\ UNCHANGED tr_vars

\* if location is None: print(...); return
ReportNoGps ==
    /\ pc = "extracted"
    /\ location = None
    /\ output' = Append(output, NoGpsMsg)
    /\ pc' = "returned"
    /\ UNCHANGED <<img, location, requests, result, address, error>>
    /\ UNCHANGED tr_vars

\* the four prints up to "Buscando direccion..."
PrintCoordinates ==
    /\ pc = "extracted"
    /\ location # None
    /\ output' = output \o CoordsLines(location[1])
    /\ pc' = "searching"
    /\ UNCHANGED <<img, location, requests, result, address, error>>
    /\ UNCHANGED tr_vars

SearchAddress_retry ==
    /\ pc = "searching"
    /\ \E reply \in ServiceReplies :
         LET out == _search_address(location[1], reply)
         IN  /\ requests' = IF reply.kind = "ServiceError"
                            THEN requests \o <<Coordinates(location[1]), Coordinates(location[1])>>
                            ELSE Append(requests, Coordinates(location[1]))
             /\ result' = Some(reply)
             /\ IF out.raised # "none"
                THEN /\ error' = out.raised
                     /\ pc' = "raised"
                     /\ UNCHANGED address
                ELSE /\ address' = out.value
                     /\ pc' = "searched"
                     /\ UNCHANGED error
    /\ UNCHANGED <<img, location, output>>
    /\ UNCHANGED tr_vars

\* address = _search_address(location): one request, then the answer is
\* read; an exception is not caught anywhere and ends the run
SearchAddress ==
    /\ pc = "searching"
    /\ \E reply \in ServiceReplies :
         LET out == _search_address(location[1], reply)
         IN  /\ requests' = Append(requests, Coordinates(location[1]))
             /\ result' = Some(reply)
             /\ IF out.raised # "none"
                THEN /\ error' = out.raised
                     /\ pc' = "raised"
                     /\ UNCHANGED address
                ELSE /\ address' = out.value
                     /\ pc' = "searched"
                     /\ UNCHANGED error
    /\ UNCHANGED <<img, location, output>>
    /\ UNCHANGED tr_vars

\* if address is None: print(...); return
ReportNoAddress ==
    /\ pc = "searched"
    /\ address = None
    /\ output' = Append(output, NoAddressMsg)
    /\ pc' = "returned"
    /\ UNCHANGED <<img, location, requests, result, address, error>>
    /\ UNCHANGED tr_vars

\* print("Direccion encontrada:"); print(address)
PrintAddress ==
    /\ pc = "searched"
    /\ address # None
    /\ output' = output \o AddressLines(address[1])
    /\ pc' = "returned"
    /\ UNCHANGED <<img, location, requests, result, address, error>>
    /\ UNCHANGED tr_vars

Next ==
    \/ Extract
    \/ ReportNoGps
    \/ PrintCoordinates
    \/ SearchAddress
    \/ ReportNoAddress
    \/ PrintAddress

(***************************************************************************)
(* translate.py: the click command translate_cmd.                          *)
(***************************************************************************)
Texts == {"hello", "bonjour", "hallo", "ciao", "hola"}

Langs == {"es", "en", "fr", "de"}

\* spellings of the option: @click.option('--target', '-t', ...)
OptionFlags == {"--target", "-t"}

\* the command line: the text argument, and the option when it is given
Argvs ==
    [text : Texts,
     option : {None} \cup {Some([flag |-> f, value |-> l]) : f \in OptionFlags, l \in Langs}]

\* click names an option's parameter after its first long flag: '--target' -> "target"
OptionParameter == "target"

\* default='es' of the option
OptionDefault == "es"

\* def translate_cmd(text, target_lang='es')
CallbackParameters == {"text", "target_lang"}

\* what click passes to the callback: one keyword per declared parameter
ClickKwargs(av) ==
    [k \in {"text", OptionParameter} |->
        IF k = "text" THEN av.text
        ELSE IF av.option = None THEN OptionDefault ELSE av.option[1].value]

\* the translation service: what detect_language answers for a text
DetectLanguage(text) ==
    [language |-> <<"language of", text>>, confidence |-> <<"confidence for", text>>]

\* the translation service: the translation of a text into a language
Translated(text, lang) == <<"translation of", text, "into", lang>>

DetectRequest(text) ==
    [op |-> "detect_language", text |-> text, target_language |-> None]

TranslateRequest(text, lang) ==
    [op |-> "translate", text |-> text, target_language |-> Some(lang)]

\* one run of translate.py on a command line; get_address.py is not running
InitTranslate ==
    /\ argv \in {Some(av) : av \in Argvs}
    /\ tr_pc = "start"
    /\ kwargs = None
    /\ tr_requests = <<>>
    /\ tr_error = "none"
    /\ tr_output = <<>>
    /\ img = [exif_data |-> None]
    /\ pc = "idle"
    /\ location = None
    /\ requests = <<>>
    /\ result = None
    /\ address = None
    /\ error = "none"
    /\ output = <<>>

\* translate_cmd(): click parses the command line into keyword arguments
ParseArgs ==
    /\ tr_pc = "start"
    /\ kwargs' = Some(ClickKwargs(argv[1]))
    /\ tr_pc' = "parsed"
    /\ UNCHANGED <<argv, tr_requests, tr_error, tr_output>>
    /\ UNCHANGED ga_vars

\* click calls translate_cmd(**kwargs).  Python raises TypeError for a
\* keyword that is no parameter of the function, before the body runs;
\* otherwise the body detects the language, prints it, translates into
\* target_lang and prints the translation.
CallTranslateCmd ==
    /\ tr_pc = "parsed"
    /\ LET kw == kwargs[1]
       IN  IF ~(DOMAIN kw \subseteq CallbackParameters)
           THEN /\ tr_error' = "TypeError"
                /\ tr_pc' = "raised"
                /\ UNCHANGED <<tr_requests, tr_output>>
           ELSE LET text        == kw["text"]
                    target_lang == IF "target_lang" \in DOMAIN kw
                                   THEN kw["target_lang"]
                                   ELSE "es"
                IN  /\ tr_requests' = <<DetectRequest(text),
                                        TranslateRequest(text, target_lang)>>
                    /\ tr_output' = <<Line("Lenguaje detectado:",
                                           <<DetectLanguage(text).language,
                                             DetectLanguage(text).confidence>>),
                                      Line("Traduccion a", <<target_lang, Translated(text, target_lang)>>)>>
                    /\ tr_pc' = "returned"
                    /\ UNCHANGED tr_error
    /\ UNCHANGED <<argv, kwargs>>
    /\ UNCHANGED ga_vars

NextTranslate ==
    \/ ParseArgs
    \/ CallTranslateCmd

(***************************************************************************)
(* Specifications: one run of get_address.py; one run of translate.py.     *)
(***************************************************************************)
Spec == Init /\ [][Next]_vars

SpecTranslate == InitTranslate /\ [][NextTranslate]_vars

(***************************************************************************)
(* Properties of get_address.py (checked under Spec).                      *)
(***************************************************************************)
Abs(x) == IF x < 0 THEN -x ELSE x

\* d + m/60 + s/3600 of a coordinate, in arc-seconds
Magnitude(c) == 3600 * c.degrees + 60 * c.minutes + c.seconds

Southwest(c) == c.direction \in {"S", "W"}

\* the service answered the call with a dict (no ServiceError)
Answered == result # None /\ result[1].kind = "ok"

ServiceFailed == result # None /\ result[1].kind = "ServiceError"

\* the answer holds a feature list
HasFeatureList == Answered /\ result[1].body[1].features # None

FeatureList == result[1].body[1].features[1]

\* the GPS block of the image, when it has one
HasGpsBlock == img.exif_data # None /\ img.exif_data[1].gps_info # None

GpsBlock == img.exif_data[1].gps_info[1]

MissingFields(g) ==
    {k \in {"GPSLatitude", "GPSLatitudeRef", "GPSLongitude", "GPSLongitudeRef"} :
        g[k] = None}

Extracted == pc \notin {"start", "idle"}

\* C1: a response whose feature list is present but empty makes
\* _search_address return None, without raising.
C1_EmptyFeatureListIsAbsent ==
    (HasFeatureList /\ Len(FeatureList) = 0)
        => (error = "none" /\ pc \in {"searched", "returned"} /\ address = None)

\* C2: _get_gps_location returns None exactly when the GPS block is missing,
\* empty, or lacks at least one of the four fields; otherwise the latitude
\* is built from GPSLatitude and GPSLatitudeRef and the longitude from
\* GPSLongitude and GPSLongitudeRef.
C2_AllOrNothing ==
    Extracted =>
        /\ location = None
              <=> (~HasGpsBlock \/ GpsBlock = EmptyGpsInfo \/ MissingFields(GpsBlock) # {})
        /\ location # None =>
              /\ __str__(location[1].latitude)
                    = GpsBlock.GPSLatitude[1] \o GpsBlock.GPSLatitudeRef
              /\ __str__(location[1].longitude)
                    = GpsBlock.GPSLongitude[1] \o GpsBlock.GPSLongitudeRef

\* C2 witness: three of the four fields are present, one is missing, and
\* the extractor has returned None.
C2_Witness ==
    /\ pc = "extracted"
    /\ HasGpsBlock
    /\ Cardinality(MissingFields(GpsBlock)) = 1
    /\ location = None

\* C3 as claimed: the value sent for each axis has absolute value
\* d + m/60 + s/3600 and is negative iff the hemisphere is S or W, for every
\* triplet, (0, 0, 0) included.
C3_SignIffSouthWest ==
    requests # <<>> =>
        /\ Abs(requests[1][1]) = Magnitude(location[1].longitude)
        /\ Abs(requests[1][2]) = Magnitude(location[1].latitude)
        /\ requests[1][1] < 0 <=> Southwest(location[1].longitude)
        /\ requests[1][2] < 0 <=> Southwest(location[1].latitude)

\* C3 amended: the absolute value is d + m/60 + s/3600; the value is negative
\* iff the hemisphere is S or W and the triplet is not (0, 0, 0); the
\* triplet (0, 0, 0) gives zero in every hemisphere.
C3_SignIffSouthWestNonZero ==
    requests # <<>> =>
        /\ Abs(requests[1][1]) = Magnitude(location[1].longitude)
        /\ Abs(requests[1][2]) = Magnitude(location[1].latitude)
        /\ requests[1][1] < 0
              <=> (Southwest(location[1].longitude) /\ Magnitude(location[1].longitude) > 0)
        /\ requests[1][2] < 0
              <=> (Southwest(location[1].latitude) /\ Magnitude(location[1].latitude) > 0)

\* C3 witness: a latitude of (0, 0, 0) S was converted, next to a nonzero
\* W longitude.
C3_Witness ==
    /\ requests # <<>>
    /\ location[1].latitude = GPSCoordinate(0, 0, 0, "S")
    /\ requests[1][2] = 0
    /\ location[1].longitude.direction = "W"
    /\ requests[1][1] < 0

\* C4: every reverse-geocoding request carries (longitude decimal, latitude
\* decimal) of the extracted location, in this order.
C4_LongitudeFirst ==
    \A i \in 1..Len(requests) :
        /\ location # None
        /\ requests[i][1] = to_decimal(location[1].longitude)
        /\ requests[i][2] = to_decimal(location[1].latitude)

\* C4 witness: a request was sent for a location whose two decimals differ.
C4_Witness ==
    /\ Len(requests) = 1
    /\ to_decimal(location[1].longitude) # to_decimal(location[1].latitude)
    /\ requests[1][1] = to_decimal(location[1].longitude)

\* C5: when the extractor yields None the run prints the "no GPS data"
\* message and nothing else, and no reverse-geocoding request is ever made.
C5_NoGpsNoRequest ==
    (Extracted /\ location = None) =>
        /\ requests = <<>>
        /\ result = None
        /\ error = "none"
        /\ pc \in {"extracted", "returned"}
        /\ pc = "extracted" => (output = <<>> /\ ENABLED ReportNoGps)
        /\ pc = "returned" => output = <<NoGpsMsg>>

\* C5 witness: a run on an image with partial GPS data has ended with the
\* "no GPS data" message.
C5_Witness ==
    /\ pc = "returned"
    /\ location = None
    /\ HasGpsBlock
    /\ MissingFields(GpsBlock) # {}
    /\ GpsBlock # EmptyGpsInfo
    /\ output = <<NoGpsMsg>>

\* C6: on a response with at least one feature the result is decided by the
\* first feature alone: None without an address entry, None without a
\* formattedAddress field, else that field's string.
C6_FirstFeatureDecides ==
    (HasFeatureList /\ Len(FeatureList) >= 1) =>
        LET first == FeatureList[1]
        IN  /\ error = "none"
            /\ pc \in {"searched", "returned"}
            /\ address = IF first.properties = None THEN None
                         ELSE IF first.properties[1].address = None THEN None
                         ELSE first.properties[1].address[1].formattedAddress

\* C6 witness: the first feature has no address entry, a later one has a
\* formatted address, and _search_address has returned None.
C6_Witness ==
    /\ pc = "searched"
    /\ HasFeatureList
    /\ Len(FeatureList) = 2
    /\ FeatureList[1].properties # None
    /\ FeatureList[1].properties[1].address = None
    /\ FeatureList[2].properties # None
    /\ FeatureList[2].properties[1].address # None
    /\ FeatureList[2].properties[1].address[1].formattedAddress # None
    /\ address = None

\* image metadata whose hemisphere fields, where present, hold N or S for
\* the latitude and E or W for the longitude
WellFormedImage ==
    HasGpsBlock =>
        /\ GpsBlock.GPSLatitudeRef \in {None, Some("N"), Some("S")}
        /\ GpsBlock.GPSLongitudeRef \in {None, Some("E"), Some("W")}

\* C7: on well-formed image metadata, a run in which the service does not
\* fail with a ServiceError ends normally, with the "no GPS data" message, or
\* the coordinates and the "no address found" message, or the coordinates
\* and the address.
C7_EndsNormally ==
    WellFormedImage =>
        /\ pc = "raised" => ServiceFailed
        /\ error # "none" => ServiceFailed
        /\ pc = "returned" =>
              \/ output = <<NoGpsMsg>>
              \/ location # None /\ output = Append(CoordsLines(location[1]), NoAddressMsg)
              \/ location # None /\ address # None
                    /\ output = CoordsLines(location[1]) \o AddressLines(address[1])

\* C8: at most one reverse-geocoding request per run; a ServiceError ends
\* the run as it is, after the one request, with neither the address nor the
\* "no address found" message printed.
C8_ServiceErrorPropagates ==
    /\ Len(requests) <= 1
    /\ ServiceFailed =>
          /\ Len(requests) = 1
          /\ pc = "raised"
          /\ error = "ServiceError"
          /\ address = None
          /\ output = CoordsLines(location[1])
          /\ ~ENABLED Next

\* C8 witness: the service failed and the run has ended with its error.
C8_Witness ==
    /\ ServiceFailed
    /\ pc = "raised"
    /\ error = "ServiceError"
    /\ Len(requests) = 1

\* C10: every location the extractor returns has a latitude hemisphere in
\* {N, S} and a longitude hemisphere in {E, W}.
C10_HemisphereRestricted ==
    location # None =>
        /\ location[1].latitude.direction \in {"N", "S"}
        /\ location[1].longitude.direction \in {"E", "W"}

(***************************************************************************)
(* Property of translate.py (checked under SpecTranslate).                 *)
(***************************************************************************)
\* the target language the command line asks for
RequestedTarget ==
    IF argv[1].option = None THEN "es" ELSE argv[1].option[1].value

\* C9: the command ends by printing the translation of the text into the
\* language given by --target/-t ('es' when the option is omitted), having
\* asked the service for that language.
C9_TranslatesToTarget ==
    tr_pc \in {"returned", "raised"} =>
        /\ tr_error = "none"
        /\ tr_pc = "returned"
        /\ \E i \in 1..Len(tr_requests) :
               tr_requests[i] = TranslateRequest(argv[1].text, RequestedTarget)
        /\ tr_output # <<>>
        /\ tr_output[Len(tr_output)]
              = Line("Traduccion a",
                     <<RequestedTarget, Translated(argv[1].text, RequestedTarget)>>)

====
